---- MODULE Spec2Model ----
(***************************************************************************)
(* ioisis.fieldutils.SubfieldParser: the subfield tokenizer.               *)
(*                                                                         *)
(* A parser is constructed once from (prefix, length, lower, first, empty, *)
(* number, zero); calling it on a field returns a generator that yields    *)
(* (key, value) pairs.  The model keeps one parser object and two          *)
(* generator slots.  A str/bytes value is a record [rep, units]: its       *)
(* representation and its sequence of units (characters or octets).        *)
(*                                                                         *)
(* The pattern compiled by __init__ is                                     *)
(*     (?:^|PREFIX(.{LENGTH}))(.*?)(?=$|PREFIX.{LENGTH})      re.DOTALL    *)
(* and is modelled by what the backtracking engine of CPython (3.7 and     *)
(* later) does with it: `^` matches at offset 0 only, `$` matches at the   *)
(* end and before a line break that ends the content, `.*?` takes the      *)
(* shortest value the lookahead accepts, and findall, after an empty       *)
(* match, searches again from the same offset and rejects an empty match   *)
(* there.                                                                  *)
(***************************************************************************)
EXTENDS Integers, Sequences, FiniteSets, Bags, TLC

VARIABLES parser, gens

vars == <<parser, gens>>

(***************************************************************************)
(* Bounds of the explored inputs.                                          *)
(***************************************************************************)
MaxPrefixLen == 2
MaxLength == 2
MaxFieldLen == 4
MaxCfgFieldLen == 1
MaxGenLength == 1
MaxGenFieldLen == 2

GenIds == {1, 2}
Reps == {"str", "bytes"}
FieldUnits == {"a", "B", "0", "\n"}
GenFieldUnits == {"a", "b"}

SeqsUpTo(S, n) == UNION {[1..k -> S] : k \in 0..n}

Min(S) == CHOOSE x \in S : \A y \in S : x <= y

Text(rep, units) == [rep |-> rep, units |-> units]

\* first=None
NoFirst == Text("none", <<>>)

MarkerUnits(k) == [i \in 1..k |-> "a"]

(***************************************************************************)
(* Pure helpers of the pattern and of __call__.                            *)
(***************************************************************************)

\* one decimal digit of "%d"
Digit(n) ==
    CASE n = 0 -> "0" [] n = 1 -> "1" [] n = 2 -> "2" [] n = 3 -> "3"
      [] n = 4 -> "4" [] n = 5 -> "5" [] n = 6 -> "6" [] n = 7 -> "7"
      [] n = 8 -> "8" [] OTHER -> "9"

RECURSIVE Decimal(_)
\* self.percent_d % suffix_int for suffix_int >= 0: shortest decimal form
Decimal(n) == IF n < 10 THEN <<Digit(n)>> ELSE Decimal(n \div 10) \o <<Digit(n % 10)>>

\* ".{%d}" % length with a negative length is not a repeat: the engine reads
\* it as one arbitrary unit followed by the literal units "{-N}"
BraceLiteral(L) == <<"{", "-">> \o Decimal(0 - L) \o <<"}">>

\* f[s:e] with 0-based offsets
Slice(f, s, e) == SubSeq(f, s + 1, e)

\* str.lower / bytes.lower on one unit of the modelled alphabet
LowerUnit(u) == CASE u = "B" -> "b" [] u = "F" -> "f" [] OTHER -> u

Lower(t) == Text(t.rep, [i \in 1..Len(t.units) |-> LowerUnit(t.units[i])])

\* truth value of self.first
Truthy(t) == t.rep # "none" /\ t.units # <<>>

\* faulty variant: the key slot may be cut short by the end of the content
SlotEndShort(f, pos, L) ==
    IF pos + L <= Len(f) THEN pos + L ELSE Len(f)

\* offset after the key slot ".{LENGTH}" that starts at offset pos, -1 when
\* the slot does not fit
SlotEnd(f, pos, L) ==
    IF L >= 0
    THEN IF pos + L <= Len(f) THEN pos + L ELSE -1
    ELSE LET lit == BraceLiteral(L)
             e == pos + 1 + Len(lit)
         IN IF e <= Len(f) /\ Slice(f, pos + 1, e) = lit THEN e ELSE -1

\* `$` without re.MULTILINE
AtEnd(f, e) == e = Len(f) \/ (e = Len(f) - 1 /\ f[e + 1] = "\n")

\* the escaped prefix matches literally at offset e
HasAt(f, P, e) == e + Len(P) <= Len(f) /\ Slice(f, e, e + Len(P)) = P

\* PREFIX.{LENGTH} matches at offset e
MarkerAt(f, P, L, e) == HasAt(f, P, e) /\ SlotEnd(f, e + Len(P), L) # -1

\* the lookahead (?=$|PREFIX.{LENGTH})
Look(f, P, L, e) == AtEnd(f, e) \/ MarkerAt(f, P, L, e)

NoMatch == [key |-> <<>>, value |-> <<>>, start |-> -1, end |-> -1, marker |-> FALSE]

\* (.*?) from offset from: the first offset the lookahead accepts; with
\* must_advance the engine rejects a match that is empty at offset s
LazyEnd(f, P, L, s, from, ma) ==
    LET E == {e \in from..Len(f) : Look(f, P, L, e) /\ ~(ma /\ e = s)}
    IN IF E = {} THEN -1 ELSE Min(E)

\* one match attempt at offset s: the branch `^` first, then PREFIX(.{LENGTH})
MatchAt(f, P, L, s, ma) ==
    LET e1 == IF s = 0 THEN LazyEnd(f, P, L, s, s, ma) ELSE -1
        v0 == IF HasAt(f, P, s) THEN SlotEnd(f, s + Len(P), L) ELSE -1
        e2 == IF v0 # -1 THEN LazyEnd(f, P, L, s, v0, ma) ELSE -1
    IN IF e1 # -1
       THEN [key |-> <<>>, value |-> Slice(f, s, e1),
             start |-> s, end |-> e1, marker |-> FALSE]
       ELSE IF e2 # -1
       THEN [key |-> Slice(f, s + Len(P), v0), value |-> Slice(f, v0, e2),
             start |-> s, end |-> e2, marker |-> TRUE]
       ELSE NoMatch

\* the engine's search: the first offset from s on at which a match exists
Search(f, P, L, s, ma) ==
    LET hits == {q \in s..Len(f) : MatchAt(f, P, L, q, ma /\ q = s).start # -1}
    IN IF hits = {} THEN NoMatch
       ELSE MatchAt(f, P, L, Min(hits), ma /\ Min(hits) = s)

RECURSIVE FindAllFrom(_, _, _, _, _)
FindAllFrom(f, P, L, s, ma) ==
    LET m == Search(f, P, L, s, ma)
    IN IF m.start = -1 THEN <<>>
       ELSE <<m>> \o FindAllFrom(f, P, L, m.end, m.end = m.start)

\* self.subfields_regex.findall(field): the (key, value) groups of the
\* successive matches, here with the span and the branch of each match
FindAll(p, f) == FindAllFrom(f, p.prefix.units, p.length, 0, FALSE)

\* `if self.empty or value`
Retained(p, value) == p.empty \/ value # <<>>

\* the key of a retained match after `if self.first and not key` and
\* `if self.lower`
BaseKey(p, m, rep) ==
    LET k1 == IF Truthy(p.first) /\ m.key = <<>> THEN p.first ELSE Text(rep, m.key)
    IN IF p.lower THEN Lower(k1) ELSE k1

\* `key += self.percent_d % suffix_int` mixes str and bytes
NumberingRaises(p, key, kc) ==
    p.number /\ (p.zero \/ CopiesIn(key, kc) # 0) /\ key.rep # p.percent_d

\* the key after `if self.number`
Numbered(p, key, kc) ==
    IF p.number /\ (p.zero \/ CopiesIn(key, kc) # 0)
    THEN Text(key.rep, key.units \o Decimal(CopiesIn(key, kc)))
    ELSE key

(***************************************************************************)
(* The generator returned by __call__.                                     *)
(*   st       "none" (slot unused), "created" (called, body not started),  *)
(*            "suspended" (at the yield), "done", "raised", "closed"       *)
(*   matches  the list findall returned, i the next match of the loop      *)
(*   pending  the key the statement after the yield will count             *)
(*   out      the pairs handed to the consumer, src their match indices    *)
(***************************************************************************)
NoGen ==
    [st |-> "none", field |-> Text("str", <<>>), matches |-> <<>>, i |-> 0,
     key_count |-> EmptyBag, pending |-> Text("str", <<>>),
     out |-> <<>>, src |-> <<>>, err |-> "none"]

RECURSIVE Advance(_, _)
\* the for loop from match g.i up to the next yield, the end or an error
Advance(p, g) ==
    IF g.i > Len(g.matches) THEN [g EXCEPT !.st = "done"]
    ELSE LET m == g.matches[g.i]
             key == BaseKey(p, m, g.field.rep)
         IN IF ~Retained(p, m.value)
            THEN Advance(p, [g EXCEPT !.i = @ + 1])
            ELSE IF NumberingRaises(p, key, g.key_count)
            THEN [g EXCEPT !.st = "raised", !.err = "TypeError"]
            ELSE [g EXCEPT !.st = "suspended",
                           !.out = Append(@, [key |-> Numbered(p, key, g.key_count),
                                              value |-> Text(g.field.rep, m.value)]),
                           !.src = Append(@, g.i),
                           !.pending = Numbered(p, key, g.key_count),
                           !.i = @ + 1]

\* one next() on a generator whose counter is kc when the body starts
StepFrom(p, g, kc) ==
    IF g.st = "created"
    THEN IF g.field.rep # p.prefix.rep
         THEN [g EXCEPT !.st = "raised", !.err = "TypeError", !.key_count = kc]
         ELSE Advance(p, [g EXCEPT !.matches = FindAll(p, g.field.units),
                                   !.i = 1, !.key_count = kc])
    ELSE Advance(p, [g EXCEPT !.key_count = @ (+) SetToBag({g.pending})])

\* one next(): `key_count = Counter()` is local to the call
Step(p, g) == StepFrom(p, g, EmptyBag)

RECURSIVE Exhaust(_, _)
\* list(generator): next() until the generator ends
Exhaust(p, g) ==
    IF g.st \in {"created", "suspended"} THEN Exhaust(p, Step(p, g)) ELSE g

\* list(parser(field)) consumed alone
Alone(p, field) == Exhaust(p, [NoGen EXCEPT !.st = "created", !.field = field])

(***************************************************************************)
(* State and operations.                                                   *)
(***************************************************************************)
NoParser ==
    [status |-> "none", prefix |-> Text("str", <<>>), length |-> 1,
     lower |-> FALSE, first |-> NoFirst, empty |-> FALSE, number |-> TRUE,
     zero |-> FALSE, percent_d |-> "str"]

Configs ==
    [prefix : {Text(r, MarkerUnits(k)) : r \in Reps, k \in 0..MaxPrefixLen},
     length : (-1)..MaxLength,
     lower : BOOLEAN,
     first : {NoFirst} \cup {Text(r, <<"F">>) : r \in Reps},
     empty : BOOLEAN, number : BOOLEAN, zero : BOOLEAN]

\* a non-empty str prefix, a length >= 0 and a first of the same representation
ValidConfigs ==
    {c \in Configs : /\ c.prefix.rep = "str" /\ c.prefix.units # <<>>
                     /\ c.length >= 0 /\ c.first.rep \in {"none", "str"}}

GenConfigs ==
    {c \in ValidConfigs : Len(c.prefix.units) = 1 /\ c.length <= MaxGenLength}

Fields == {Text("str", u) : u \in SeqsUpTo(FieldUnits, MaxFieldLen)}
CfgFields == {Text(r, u) : r \in Reps, u \in SeqsUpTo(FieldUnits, MaxCfgFieldLen)}
GenFields == {Text("str", u) : u \in SeqsUpTo(GenFieldUnits, MaxGenFieldLen)}

Init ==
    /\ parser = NoParser
    /\ gens = [g \in GenIds |-> NoGen]

\* faulty variant: __init__ validates its arguments
ConstructValidating(c) ==
    /\ parser.status = "none"
    /\ parser' = [status |-> IF \/ c.prefix.units = <<>>
                                \/ c.length < 0
                                \/ c.first.rep \notin {"none", c.prefix.rep}
                             THEN "ConfigurationError" ELSE "ok",
                  prefix |-> c.prefix, length |-> c.length, lower |-> c.lower,
                  first |-> c.first, empty |-> c.empty, number |-> c.number,
                  zero |-> c.zero, percent_d |-> c.prefix.rep]
    /\ UNCHANGED gens

\* SubfieldParser(prefix, length=, lower=, first=, empty=, number=, zero=)
Construct(c) ==
    /\ parser.status = "none"
    /\ parser' = [status |-> "ok",
                  prefix |-> c.prefix, length |-> c.length, lower |-> c.lower,
                  first |-> c.first, empty |-> c.empty, number |-> c.number,
                  zero |-> c.zero, percent_d |-> c.prefix.rep]
    /\ UNCHANGED gens

\* parser(field): a new generator, no statement of the body has run
Call(g, field) ==
    /\ parser.status = "ok"
    /\ gens[g].st = "none"
    /\ gens' = [gens EXCEPT ![g] = [NoGen EXCEPT !.st = "created", !.field = field]]
    /\ UNCHANGED parser

\* faulty variant: the counter is one object kept on the parser and shared by all calls
ResumeShared(g) ==
    /\ gens[g].st \in {"created", "suspended"}
    /\ LET n == StepFrom(parser, gens[g], gens[g].key_count)
       IN gens' = [h \in GenIds |->
                     IF h = g THEN n ELSE [gens[h] EXCEPT !.key_count = n.key_count]]
    /\ UNCHANGED parser

\* next(generator)
Resume(g) ==
    /\ gens[g].st \in {"created", "suspended"}
    /\ gens' = [gens EXCEPT ![g] = Step(parser, gens[g])]
    /\ UNCHANGED parser

\* the consumer abandons the generator
Close(g) ==
    /\ gens[g].st \in {"created", "suspended"}
    /\ gens' = [gens EXCEPT ![g].st = "closed"]
    /\ UNCHANGED parser

\* one parser with a valid configuration, one generator consumed to its end
Next ==
    \/ \E c \in ValidConfigs : Construct(c)
    \/ \E f \in Fields : Call(1, f)
    \/ Resume(1)

Spec == Init /\ [][Next]_vars

\* any configuration, fields of either representation, one generator
NextConfig ==
    \/ \E c \in Configs : Construct(c)
    \/ \E f \in CfgFields : Call(1, f)
    \/ Resume(1)
    \/ Close(1)

SpecConfig == Init /\ [][NextConfig]_vars

\* one parser, two generators consumed in any interleaving
NextGens ==
    \/ \E c \in GenConfigs : Construct(c)
    \/ \E g \in GenIds, f \in GenFields : Call(g, f)
    \/ \E g \in GenIds : Resume(g)
    \/ \E g \in GenIds : Close(g)

SpecGens == Init /\ [][NextGens]_vars

(***************************************************************************)
(* Vocabulary of the properties.                                           *)
(***************************************************************************)
Range(s) == {s[i] : i \in 1..Len(s)}

DigitUnits == {Digit(n) : n \in 0..9}

IsPrefix(s, t) == Len(s) <= Len(t) /\ SubSeq(t, 1, Len(s)) = s

\* the key of the i-th emitted pair before numbering
BaseOf(g, i) == BaseKey(parser, g.matches[g.src[i]], g.field.rep)

\* how many pairs emitted before the i-th one have the same key before numbering
EarlierSame(g, i) == Cardinality({j \in 1..(i - 1) : BaseOf(g, j) = BaseOf(g, i)})

\* the suffix the numbering rule gives to occurrence number n (from 0) of a key
Suffix(zero, n) == IF n = 0 /\ ~zero THEN <<>> ELSE Decimal(n)

\* k[:n]
Take(k, n) == SubSeq(k, 1, IF n < Len(k) THEN n ELSE Len(k))

RECURSIVE JoinRest(_, _, _)
JoinRest(p, out, i) ==
    IF i > Len(out) THEN <<>>
    ELSE p.prefix.units \o Take(out[i].key.units, p.length) \o out[i].value.units
         \o JoinRest(p, out, i + 1)

\* the first value, then prefix + key[:length] + value for every later pair
Join(p, out) == IF out = <<>> THEN <<>> ELSE out[1].value.units \o JoinRest(p, out, 2)

\* number of offsets at which the prefix occurs in the field, overlaps included
Occurrences(f, P) == Cardinality({e \in 0..Len(f) : HasAt(f, P, e)})

\* the prefix occurs at offset e with fewer than length units after it
ShortMarker(f, P, L, e) == HasAt(f, P, e) /\ Len(f) - (e + Len(P)) < L

\* offset e lies in the prefix or the key slot of a marker-introduced match
InKeySlot(g, e) ==
    \E i \in 1..Len(g.matches) :
        /\ g.matches[i].marker
        /\ g.matches[i].start < e
        /\ e < g.matches[i].end - Len(g.matches[i].value)

\* offset e lies in the value of a match
InValue(g, e) ==
    \E i \in 1..Len(g.matches) :
        /\ g.matches[i].end - Len(g.matches[i].value) <= e
        /\ e < g.matches[i].end

Ran(g) == g.st \in {"suspended", "done"}

(***************************************************************************)
(* Properties.                                                             *)
(***************************************************************************)

\* C1: with number=True the occurrences of a key (after first-key
\* substitution and lowercasing) carry, in order, the suffixes none (or "0"
\* with zero=True), "1", "2", ..., "n-1".
C1_NumberingSequence ==
    \A g \in GenIds :
        parser.number =>
            \A i \in 1..Len(gens[g].out) :
                gens[g].out[i].key.units =
                    BaseOf(gens[g], i).units \o Suffix(parser.zero, EarlierSame(gens[g], i))

\* C2: with empty=True and lower=False, the first value followed by
\* prefix + key[:length] + value of every later pair is the field again.
C2_RoundTrip ==
    \A g \in GenIds :
        (gens[g].st = "done" /\ parser.empty /\ ~parser.lower) =>
            Join(parser, gens[g].out) = gens[g].field.units

\* C3 as stated: construction ends in ConfigurationError when the prefix is
\* empty, the length negative or first of another representation than the
\* prefix, and no such error is produced during a call.
C3_ConfigurationError ==
    /\ (/\ parser.status # "none"
        /\ \/ parser.prefix.units = <<>>
           \/ parser.length < 0
           \/ parser.first.rep \notin {"none", parser.prefix.rep})
       => parser.status = "ConfigurationError"
    /\ \A g \in GenIds : gens[g].err # "ConfigurationError"

\* C3 amended: construction never fails, whatever the prefix, the length and
\* the representation of first; the only error of a call is a TypeError, it
\* needs a field or a first of another representation than the prefix, and
\* pairs are only produced from a field of the prefix's representation.
C3_NoValidation ==
    /\ parser.status \in {"none", "ok"}
    /\ \A g \in GenIds :
        /\ gens[g].st = "raised" <=> gens[g].err = "TypeError"
        /\ gens[g].err \in {"none", "TypeError"}
        /\ gens[g].st = "raised" =>
              \/ gens[g].field.rep # parser.prefix.rep
              \/ parser.first.rep \notin {"none", parser.prefix.rep}
        /\ (gens[g].st \in {"created", "suspended"} /\ gens[g].field.rep # parser.prefix.rep)
              => gens[g].out = <<>> /\ gens[g].st = "created"

\* C3 witness: a parser built from an empty prefix, a negative length and a
\* first of the other representation, whose call raised at the numbering.
C3_Witness ==
    /\ parser.status = "ok"
    /\ parser.prefix.units = <<>>
    /\ parser.length < 0
    /\ parser.first.rep \notin {"none", parser.prefix.rep}
    /\ gens[1].st = "raised"
    /\ gens[1].field.rep = parser.prefix.rep

\* C4: a segment that a prefix introduces and whose key slot is empty (every
\* one of them when length=0) keeps the empty key: its emitted key is the
\* bare numbering suffix, never first.
C4_FirstOnlySegmentZero ==
    \A g \in GenIds :
        \A i \in 1..Len(gens[g].out) :
            (/\ gens[g].src[i] > 1
             /\ gens[g].matches[gens[g].src[i]].marker
             /\ gens[g].matches[gens[g].src[i]].key = <<>>) =>
                /\ Range(gens[g].out[i].key.units) \subseteq DigitUnits
                /\ ~parser.number => gens[g].out[i].key.units = <<>>

\* C5 as stated: a prefix followed by fewer than length units before the end
\* of the content starts a segment whose key slot is what is left and whose
\* value is empty.
C5_ShortSlotStartsSegment ==
    \A g \in GenIds :
        Ran(gens[g]) =>
            \A e \in 0..Len(gens[g].field.units) :
                (/\ ShortMarker(gens[g].field.units, parser.prefix.units, parser.length, e)
                 /\ ~InKeySlot(gens[g], e)) =>
                    \E i \in 1..Len(gens[g].matches) :
                        /\ gens[g].matches[i].marker
                        /\ gens[g].matches[i].start = e
                        /\ gens[g].matches[i].value = <<>>

\* C5 amended: a prefix followed by fewer than length units before the end of
\* the content starts no segment, and the key slot of every segment a prefix
\* introduces has exactly length units.
C5_KeySlotExact ==
    \A g \in GenIds :
        Ran(gens[g]) =>
            /\ \A i \in 1..Len(gens[g].matches) :
                  gens[g].matches[i].marker =>
                      /\ Len(gens[g].matches[i].key) = parser.length
                      /\ HasAt(gens[g].field.units, parser.prefix.units,
                               gens[g].matches[i].start)
            /\ \A e \in 0..Len(gens[g].field.units) :
                  ShortMarker(gens[g].field.units, parser.prefix.units, parser.length, e) =>
                      \A i \in 1..Len(gens[g].matches) :
                          ~(gens[g].matches[i].marker /\ gens[g].matches[i].start = e)

\* C5 witness: a finished call on a field that holds a prefix with too few
\* units after it, left in the value of a segment.
C5_Witness ==
    /\ gens[1].st = "done"
    /\ \E e \in 0..Len(gens[1].field.units) :
          /\ ShortMarker(gens[1].field.units, parser.prefix.units, parser.length, e)
          /\ ~InKeySlot(gens[1], e)
          /\ InValue(gens[1], e)

\* C6: a call emits at most (occurrences of the prefix in the field) + 1
\* pairs.
C6_PairCountBound ==
    \A g \in GenIds :
        Len(gens[g].out) <= Occurrences(gens[g].field.units, parser.prefix.units) + 1

\* C7: whatever the interleaving of the two generators of one parser, each
\* has produced a prefix of what it yields when consumed alone, all of it
\* once it is done, and two finished calls on the same field agree.
C7_CallsIndependent ==
    /\ \A g \in GenIds :
          gens[g].st # "none" =>
              /\ IsPrefix(gens[g].out, Alone(parser, gens[g].field).out)
              /\ gens[g].st = "done" => gens[g].out = Alone(parser, gens[g].field).out
              /\ gens[g].st = "done" => Alone(parser, gens[g].field).st = "done"
    /\ (/\ gens[1].st = "done" /\ gens[2].st = "done"
        /\ gens[1].field = gens[2].field) => gens[1].out = gens[2].out

\* C7 witness: generator 1 ran to its end and numbered a repeated key while
\* generator 2, which had produced pairs too, was abandoned.
C7_Witness ==
    /\ gens[1].st = "done"
    /\ gens[2].st = "closed"
    /\ Len(gens[2].out) >= 1
    /\ parser.number
    /\ \E i \in 1..Len(gens[1].out) : EarlierSame(gens[1], i) >= 1

\* C8: a call never raises, and a content without any occurrence of the
\* prefix yields one pair whose value is the whole content, or nothing when
\* it is empty and empty=False.
C8_NoPrefixWholeContent ==
    \A g \in GenIds :
        /\ gens[g].st # "raised"
        /\ (/\ gens[g].st = "done"
            /\ Occurrences(gens[g].field.units, parser.prefix.units) = 0) =>
               IF gens[g].field.units = <<>> /\ ~parser.empty
               THEN gens[g].out = <<>>
               ELSE /\ Len(gens[g].out) = 1
                    /\ gens[g].out[1].value = gens[g].field

\* C9: with number=True and empty=False the first retained occurrence of a
\* key is unsuffixed ("0" with zero=True), whatever was dropped before it.
C9_DroppedNotCounted ==
    \A g \in GenIds :
        (parser.number /\ ~parser.empty) =>
            \A i \in 1..Len(gens[g].out) :
                /\ gens[g].out[i].value.units # <<>>
                /\ EarlierSame(gens[g], i) = 0 =>
                      gens[g].out[i].key.units =
                          BaseOf(gens[g], i).units \o Suffix(parser.zero, 0)

\* C10: with number=True, length >= 1 and first unset, the keys emitted by
\* one call are pairwise distinct.
C10_KeysDistinct ==
    \A g \in GenIds :
        (parser.number /\ parser.length >= 1 /\ parser.first = NoFirst) =>
            \A i, j \in 1..Len(gens[g].out) :
                i # j => gens[g].out[i].key # gens[g].out[j].key

====
